---- MODULE Spec2Model ----
(***************************************************************************)
(* Offline-first synchronisation engine: the Local Store (IndexedDbService *)
(* outbox / syncConflicts / cache), the Request Router                     *)
(* (OfflineInterceptor) and the Sync Orchestrator (SyncService).           *)
(*                                                                         *)
(* Scheduling model.  Everything runs on one JavaScript thread: a step of  *)
(* the model is the code that runs between two suspension points (an       *)
(* await, an HTTP response, a browser event).  An IndexedDB operation is   *)
(* linearised where it is issued: the store is already open (db # null,    *)
(* so `await this.init()` resumes in one microtask) and IndexedDB runs     *)
(* transactions with overlapping scope in the order of their creation, so  *)
(* the effect of an operation is the effect it has on the store as it was  *)
(* when it was issued; what happens later is only the continuation of the  *)
(* caller.                                                                 *)
(*                                                                         *)
(* JSON values are modelled by their JSON text (a string).  Fields marked  *)
(* "ghost" do not exist in the program: they name the offline submission   *)
(* an item stems from, so that properties can speak about it.              *)
(***************************************************************************)
EXTENDS Integers, Sequences, FiniteSets, TLC

\* ------------------------------------------------------------------ bounds
\* Offline submissions accepted in one behaviour.
MaxMutations == 2
\* sync() invocations that get past shouldSkipSync in one behaviour.
MaxSyncs == 2
\* Largest value of the clock (Date.now()).
MaxTime == 2
\* Online reads in one behaviour of the router specification.
MaxReads == 2
\* Subscribers of isOnline$.
MaxSubscribers == 2
\* Concurrent callers of IndexedDbService.init().
MaxCallers == 2
\* Calls of init() in one behaviour of the store-opening specification.
MaxInitCalls == 3

\* ------------------------------------------------------- http.utils.ts
HTTP_STATUS_OK == 200
HTTP_STATUS_CREATED == 201
HTTP_STATUS_NOT_FOUND == 404
HTTP_STATUS_SERVICE_UNAVAILABLE == 503

MUTATION_METHODS == {"POST", "PUT", "DELETE"}

isMutationMethod(method) == method = "POST" \/ method = "PUT" \/ method = "DELETE"

isGetMethod(method) == method = "GET"

\* Mutant: every status from 400 on counts as a client error.
isClientErrorNoUpperBound(status) == status >= 400

\* Mutant: no failure is a client error.
isClientErrorNever(status) == FALSE

isClientError(status) == status >= 400 /\ status < 500

\* ------------------------------------------------------- JSON and HTTP
\* JSON values by their text.  JsonNull is also what HttpRequest.body holds
\* when a request has no body.
JsonNull == "null"
JsonEmptyObject == "{}"
\* Values of the language that are not JSON: a property that is not there.
Undefined == "undefined"

\* Mutant: every value counts as truthy.
TruthyAlways(v) == TRUE

\* JavaScript's ToBoolean on a JSON value: null, false, 0 and "" are falsy,
\* every array and object (also the empty ones) is truthy.
Truthy(v) == v \notin {"null", "false", "0", "\"\"", Undefined}

\* a || b
OrElse(a, b) == IF Truthy(a) THEN a ELSE b

\* Request bodies and response bodies the environment may produce.
Bodies == {"null", "false", "0", "\"\"", "[]", "{note:x}"}
Urls == {"/notes", "/notes/1"}

\* What the remote transport (next.handle at the end of the interceptor
\* chain) may answer: 0 is a transport-level failure (HttpErrorResponse
\* with status 0), 200..299 arrive as an HttpResponse, everything else as
\* an HttpErrorResponse on the error channel.
RemoteStatuses == {0, HTTP_STATUS_OK, HTTP_STATUS_CREATED, HTTP_STATUS_NOT_FOUND, 500}
\* What it answers a replay with.
ReplayStatuses == {0, HTTP_STATUS_OK, HTTP_STATUS_NOT_FOUND, 500}

isSuccessStatus(status) == status >= 200 /\ status < 300

\* HttpErrorResponse.message, "Http failure response for <url>: <status>
\* <statusText>": never empty, so `error.message || ...` is the message.
ErrorMessage(status) == <<"Http failure response", status>>

\* ------------------------------------------------------------------ state
VARIABLES
    online,         \* navigator.onLine
    now,            \* Date.now()
    outbox,         \* object store 'outbox': set of OutboxItem
    nextOutboxId,   \* its autoIncrement key generator
    syncConflicts,  \* object store 'syncConflicts': set of SyncConflict
    nextConflictId, \* its autoIncrement key generator
    cache,          \* object store 'cache': set of CacheItem, one per key
    currentStatus,  \* SyncService.currentStatus, the last published SyncStatus
    syncCount,      \* sync() invocations that got past shouldSkipSync
    pc,             \* where each of them stands
    snapshot,       \* its outboxItems
    idx,            \* the position in outboxItems of the item being replayed
    via,            \* who answers its request in flight: "remote" or "local"
    answer,         \* the status the remote has answered it with, on its way back
    replayLog,      \* ghost: the replay calls that reached the remote, in order
    acked,          \* ghost: submissions a replay of which the remote answered 2xx
    rejected,       \* ghost: outbox items a replay of which the remote answered 4xx
    submitted,      \* ghost: offline submissions accepted so far
    reads,          \* ghost: online reads made so far
    last,           \* ghost: the last request through the router and its response
    constructedOnline, \* navigator.onLine when OfflineDetectionService was constructed
    stream,         \* ghost: what isOnline$ has delivered to each subscriber, in order
    disk,           \* the database 'offline-first-db' of the browser: version, object stores
    db,             \* IndexedDbService.db: the connection held, NoHandle for null
    connections,    \* ghost: connections openDB has opened
    upgrades,       \* ghost: runs of the upgrade callback
    sessionNotes,   \* object store 'sessionNotes': the keys of its records
    seedInserts,    \* ghost: how often each sample note has been added
    initPc,         \* where each caller of init() stands
    initArg,        \* the count it has read, or the sample note whose add it awaits
    initCalls,      \* ghost: calls of init() by the callers so far
    lastOp,         \* ghost: the last store operation and its outcome
    request         \* ghost: the last request for a drain that was watched

monitorVars == <<constructedOnline, stream>>
initVars == <<disk, db, connections, upgrades, sessionNotes, seedInserts, initPc, initArg,
              initCalls, lastOp>>
watchVars == <<request>>

vars == <<online, now, outbox, nextOutboxId, syncConflicts, nextConflictId, cache,
          currentStatus, syncCount, pc, snapshot, idx, via, answer, replayLog, acked,
          rejected, submitted, reads, last, monitorVars, initVars, watchVars>>

storeVars == <<outbox, nextOutboxId, syncConflicts, nextConflictId, cache>>
syncVars == <<currentStatus, syncCount, pc, snapshot, idx, via, answer, replayLog, acked,
              rejected>>

Syncs == 1..MaxSyncs
Subscribers == 1..MaxSubscribers
Callers == 1..MaxCallers

\* No answer of the remote is on its way.
NoAnswer == -1

\* The idle status of the constructor and of handleSyncComplete.
IdleStatus == [isSyncing |-> FALSE, totalItems |-> 0, completedItems |-> 0, failedItems |-> 0]

NoRequest == [op |-> "none"]

\* IndexedDbService: dbVersion, the object stores of OfflineFirstDB, and the
\* keys of the sample notes of initializeSampleData in the order they are
\* added.
dbVersion == 3
ObjectStores == {"outbox", "syncConflicts", "cache", "sessionNotes"}
SampleNotes == <<"1", "2">>
\* db = null
NoHandle == 0
NoOperation == [op |-> "none"]
NoSyncRequest == [by |-> "none", d |-> 0]

\* The services as their constructors leave them, with empty outbox,
\* syncConflicts and cache.
InitServices ==
    /\ online \in BOOLEAN
    /\ now = 1
    /\ outbox = {}
    /\ nextOutboxId = 1
    /\ syncConflicts = {}
    /\ nextConflictId = 1
    /\ cache = {}
    /\ currentStatus = IdleStatus
    /\ syncCount = 0
    /\ pc = [d \in Syncs |-> "idle"]
    /\ snapshot = [d \in Syncs |-> <<>>]
    /\ idx = [d \in Syncs |-> 0]
    /\ via = [d \in Syncs |-> "none"]
    /\ answer = [d \in Syncs |-> NoAnswer]
    /\ replayLog = <<>>
    /\ acked = {}
    /\ rejected = {}
    /\ submitted = 0
    /\ reads = 0
    /\ last = NoRequest
    /\ constructedOnline = online
    /\ stream = [s \in Subscribers |-> <<>>]
    /\ initPc = [c \in Callers |-> "idle"]
    /\ initArg = [c \in Callers |-> 0]
    /\ initCalls = 0
    /\ lastOp = NoOperation
    /\ request = NoSyncRequest

\* The application is running: APP_INITIALIZER has awaited init(), the
\* database is open with all its object stores and the sample notes are in.
Init ==
    /\ InitServices
    /\ disk = [version |-> dbVersion, stores |-> ObjectStores]
    /\ db = 1
    /\ connections = 1
    /\ upgrades = 1
    /\ sessionNotes = {SampleNotes[i] : i \in 1..Len(SampleNotes)}
    /\ seedInserts = [i \in 1..Len(SampleNotes) |-> 1]

\* ------------------------------------------------- IndexedDbService (store)
\* The operations below give the content of an object store after the
\* operation; the actions that issue them advance the key generators.

\* addToOutbox: the record added to 'outbox' under the key the store assigns.
\* m is ghost: the submission the item stems from.
addToOutbox(store, item, id) ==
    store \cup {[id |-> id, url |-> item.url, method |-> item.method,
                 payload |-> item.payload,
                 timestamp |-> IF item.timestamp # 0 THEN item.timestamp ELSE now,
                 m |-> item.m]}

\* Mutant: equal timestamps come out in no order of the keys.
IndexBeforeTiesReversed(a, b) ==
    \/ a.timestamp < b.timestamp
    \/ a.timestamp = b.timestamp /\ a.id > b.id

\* The index 'by-timestamp': records by timestamp, and by primary key among
\* equal timestamps.
IndexBefore(a, b) ==
    \/ a.timestamp < b.timestamp
    \/ a.timestamp = b.timestamp /\ a.id < b.id

RECURSIVE IndexGetAll(_)
IndexGetAll(records) ==
    IF records = {} THEN <<>>
    ELSE LET first == CHOOSE a \in records : \A b \in records \ {a} : IndexBefore(a, b)
         IN  <<first>> \o IndexGetAll(records \ {first})

getOutbox(store) == IndexGetAll(store)

\* removeFromOutbox: db.delete of a key; deleting an absent key does nothing.
\* Mutant: the whole store is cleared.
removeFromOutboxClearing(store, id) == {}

\* Mutant: nothing is removed.
removeFromOutboxNothing(store, id) == store

removeFromOutbox(store, id) == {o \in store : o.id # id}

\* Mutant: the conflict is not written.
addToSyncConflictsDropped(store, c, id) == store

\* addToSyncConflicts.  item and m are ghost: the outbox key and the
\* submission the conflict stems from.
addToSyncConflicts(store, c, id) ==
    store \cup {[id |-> id, url |-> c.url, method |-> c.method, payload |-> c.payload,
                 timestamp |-> IF c.timestamp # 0 THEN c.timestamp ELSE now,
                 error |-> c.error, item |-> c.item, m |-> c.m]}

\* removeSyncConflict: delete by key; deleting an absent key does nothing.
removeSyncConflict(store, id) == {c \in store : c.id # id}

\* cacheGet: db.put on the keyPath 'key' replaces the entry of the key.
cacheGet(store, key, data) ==
    {c \in store : c.key # key} \cup {[key |-> key, data |-> data, timestamp |-> now]}

\* getCached: item ? item.data : null
getCached(store, key) ==
    IF \E c \in store : c.key = key
    THEN (CHOOSE c \in store : c.key = key).data
    ELSE JsonNull

\* ------------------------------------------- IndexedDbService.init
\* openDB's upgrade callback: it runs when the database on disk is older
\* than dbVersion and creates the object stores that are not there.
upgrade(database) == [version |-> dbVersion, stores |-> database.stores \cup ObjectStores]

\* openDB: the database as the open request leaves it.  IndexedDB runs the
\* open requests of one database one after the other, so a second request
\* finds the database already at dbVersion.
openDB(database) == IF database.version < dbVersion THEN upgrade(database) ELSE database

\* init(), up to the await of openDB.
InitCall(c) ==
    /\ initPc[c] \in {"idle", "returned", "failed"}
    /\ initCalls < MaxInitCalls
    /\ initCalls' = initCalls + 1
    /\ initPc' = [initPc EXCEPT ![c] = IF db # NoHandle THEN "returned" ELSE "opening"]
    /\ UNCHANGED <<online, now, storeVars, syncVars, submitted, reads, last, monitorVars,
                   watchVars, disk, db, connections, upgrades, sessionNotes, seedInserts, initArg,
                   lastOp>>

\* init(), openDB has resolved: the connection is assigned to this.db,
\* then the sessionNotes store is looked for, then initializeSampleData
\* issues the count.
OpenResolved(c) ==
    /\ initPc[c] = "opening"
    /\ disk' = openDB(disk)
    /\ upgrades' = IF disk.version < dbVersion THEN upgrades + 1 ELSE upgrades
    /\ connections' = connections + 1
    /\ db' = connections + 1
    /\ IF "sessionNotes" \notin disk'.stores
       THEN /\ initPc' = [initPc EXCEPT ![c] = "failed"]
            /\ UNCHANGED initArg
       ELSE /\ initPc' = [initPc EXCEPT ![c] = "counting"]
            /\ initArg' = [initArg EXCEPT ![c] = Cardinality(sessionNotes)]
    /\ UNCHANGED <<online, now, storeVars, syncVars, submitted, reads, last, monitorVars,
                   watchVars, sessionNotes, seedInserts, initCalls, lastOp>>

\* initializeSampleData, the loop taking up sample note i: db.add fails on
\* a key that is in the store, the catch logs it and init() returns.
AddSampleNote(c, i) ==
    IF i > Len(SampleNotes) \/ SampleNotes[i] \in sessionNotes
    THEN /\ initPc' = [initPc EXCEPT ![c] = "returned"]
         /\ UNCHANGED <<sessionNotes, seedInserts, initArg>>
    ELSE /\ sessionNotes' = sessionNotes \cup {SampleNotes[i]}
         /\ seedInserts' = [seedInserts EXCEPT ![i] = seedInserts[i] + 1]
         /\ initPc' = [initPc EXCEPT ![c] = "seeding"]
         /\ initArg' = [initArg EXCEPT ![c] = i]

\* initializeSampleData after the await of count.
CountResolved(c) ==
    /\ initPc[c] = "counting"
    /\ IF initArg[c] = 0
       THEN AddSampleNote(c, 1)
       ELSE /\ initPc' = [initPc EXCEPT ![c] = "returned"]
            /\ UNCHANGED <<sessionNotes, seedInserts, initArg>>
    /\ UNCHANGED <<online, now, storeVars, syncVars, submitted, reads, last, monitorVars,
                   watchVars, disk, db, connections, upgrades, initCalls, lastOp>>

\* initializeSampleData after the await of an add.
AddResolved(c) ==
    /\ initPc[c] = "seeding"
    /\ AddSampleNote(c, initArg[c] + 1)
    /\ UNCHANGED <<online, now, storeVars, syncVars, submitted, reads, last, monitorVars,
                   watchVars, disk, db, connections, upgrades, initCalls, lastOp>>

\* The store operations that only read or delete, and the object store
\* each works on.
StoreReads ==
    {[op |-> "getOutbox", store |-> "outbox"],
     [op |-> "removeFromOutbox", store |-> "outbox"],
     [op |-> "getSyncConflicts", store |-> "syncConflicts"],
     [op |-> "getCached", store |-> "cache"]}

\* A store operation called when this.db is set: init() returns at once,
\* ensureDatabaseInitialized passes, and the request on the connection
\* fails only if the object store is not in the database.  Reading, and
\* deleting a key that is not there, leave the stores as they are.
StoreRead(c, o) ==
    /\ initPc[c] \in {"returned", "failed"}
    /\ db # NoHandle
    /\ lastOp' = [op |-> o.op, caller |-> c, ok |-> o.store \in disk.stores]
    /\ UNCHANGED <<online, now, storeVars, syncVars, submitted, reads, last, monitorVars,
                   watchVars, disk, db, connections, upgrades, sessionNotes, seedInserts, initPc,
                   initArg, initCalls>>

\* addToOutbox called when this.db is set.
StoreAppend(c, item) ==
    /\ initPc[c] \in {"returned", "failed"}
    /\ db # NoHandle
    /\ nextOutboxId < MaxMutations + 1
    /\ lastOp' = [op |-> "addToOutbox", caller |-> c, ok |-> "outbox" \in disk.stores]
    /\ IF "outbox" \in disk.stores
       THEN /\ outbox' = addToOutbox(outbox, item, nextOutboxId)
            /\ nextOutboxId' = nextOutboxId + 1
       ELSE UNCHANGED <<outbox, nextOutboxId>>
    /\ UNCHANGED <<online, now, syncConflicts, nextConflictId, cache, syncVars, submitted,
                   reads, last, monitorVars, watchVars, disk, db, connections, upgrades,
                   sessionNotes, seedInserts, initPc, initArg, initCalls>>

\* --------------------------------------------- OfflineDetectionService
\* fromEvent(window, 'online' / 'offline') mapped to true / false and merged
\* into online$: the value reaches every subscriber there is.
Emit(streams, value) ==
    [s \in Subscribers |-> IF streams[s] = <<>> THEN <<>> ELSE Append(streams[s], value)]

\* A subscriber subscribes to isOnline$: startWith delivers the value the
\* constructor read from navigator.onLine, then merge subscribes to
\* of(navigator.onLine), which delivers the same value again, and to the
\* two event streams.
Subscribe(s) ==
    /\ stream[s] = <<>>
    /\ stream' = [stream EXCEPT ![s] = <<constructedOnline, constructedOnline>>]
    /\ UNCHANGED <<online, now, storeVars, syncVars, submitted, reads, last,
                   constructedOnline, initVars, watchVars>>

\* Time passes.  The program reads the clock only to stamp what it stores,
\* and only the order of the stamps of queued items has an effect, so the
\* clock is advanced only past a stamp that a queued item carries.
Tick ==
    /\ now < MaxTime
    /\ \E o \in outbox : o.timestamp = now
    /\ now' = now + 1
    /\ UNCHANGED <<online, storeVars, syncVars, submitted, reads, last, monitorVars, initVars, watchVars>>

\* The platform loses connectivity: navigator.onLine becomes false.
GoOffline ==
    /\ online
    /\ online' = FALSE
    /\ stream' = Emit(stream, FALSE)
    /\ UNCHANGED <<now, storeVars, syncVars, submitted, reads, last, constructedOnline,
                   initVars, watchVars>>

\* ---------------------------------------------------- OfflineInterceptor
\* A response body that is a JSON value handed through as it is.
Json(j) == [json |-> j]

HttpResponse(status, statusText, body) ==
    [status |-> status, statusText |-> statusText, body |-> body]

createOfflineMutationResponse(method, body) ==
    IF method = "POST"
    THEN [success |-> TRUE, message |-> "Saved offline, will sync when online", data |-> body]
    ELSE IF method = "PUT"
    THEN [success |-> TRUE, message |-> "Updated offline, will sync when online", data |-> body]
    ELSE IF method = "DELETE"
    THEN [success |-> TRUE, message |-> "Delete queued offline, will sync when online"]
    ELSE [success |-> TRUE, message |-> "Saved offline, will sync when online"]

\* handleOfflineMutation: the item handed to addToOutbox.  m is ghost.
OfflineOutboxItem(req, m) ==
    [url |-> req.url, method |-> req.method,
     payload |-> OrElse(req.body, JsonEmptyObject),
     timestamp |-> now, m |-> m]

\* handleOfflineMutation: the response it returns.
OfflineMutationResponse(req) ==
    HttpResponse(HTTP_STATUS_OK, "OK", createOfflineMutationResponse(req.method, req.body))

createCachedResponse(data) == HttpResponse(HTTP_STATUS_OK, "OK (Cached)", Json(data))

createServiceUnavailableResponse ==
    HttpResponse(HTTP_STATUS_SERVICE_UNAVAILABLE, "Service Unavailable",
                 [error |-> "No cached data available and device is offline"])

\* handleOfflineGet
handleOfflineGet(req) ==
    LET cachedData == getCached(cache, req.url)
    IN  IF Truthy(cachedData)
        THEN createCachedResponse(cachedData)
        ELSE createServiceUnavailableResponse

\* handleOnlineGet: whether the event from next.handle is written to the cache.
CachesResponse(status) == status = HTTP_STATUS_OK

\* What the remote transport hands back for an answer of the remote.
RemoteResponse(status, body) ==
    HttpResponse(status, IF isSuccessStatus(status) THEN "OK" ELSE "error", Json(body))

Request(url, method, body) == [url |-> url, method |-> method, body |-> body]

\* intercept, !isOnline && isMutation: a caller submits a mutation offline.
InterceptOfflineMutation(req) ==
    /\ ~online
    /\ isMutationMethod(req.method)
    /\ submitted < MaxMutations
    /\ submitted' = submitted + 1
    /\ outbox' = addToOutbox(outbox, OfflineOutboxItem(req, submitted + 1), nextOutboxId)
    /\ nextOutboxId' = nextOutboxId + 1
    /\ last' = [op |-> "offlineMutation", req |-> req, remote |-> FALSE,
                resp |-> OfflineMutationResponse(req)]
    /\ UNCHANGED <<online, now, syncConflicts, nextConflictId, cache, syncVars, reads, monitorVars, initVars, watchVars>>

\* intercept, !isOnline && isGet
InterceptOfflineGet(req) ==
    /\ ~online
    /\ isGetMethod(req.method)
    /\ last' = [op |-> "offlineGet", req |-> req, remote |-> FALSE,
                resp |-> handleOfflineGet(req)]
    /\ UNCHANGED <<online, now, storeVars, syncVars, submitted, reads, monitorVars, initVars, watchVars>>

\* intercept, isOnline && isGet: the read goes to the remote, which answers
\* status and body; the write to the cache is issued before the response
\* is handed to the caller.
InterceptOnlineGet(req, status, body) ==
    /\ online
    /\ isGetMethod(req.method)
    /\ reads < MaxReads
    /\ reads' = reads + 1
    /\ cache' = IF CachesResponse(status) THEN cacheGet(cache, req.url, body) ELSE cache
    /\ last' = [op |-> "onlineGet", req |-> req, remote |-> TRUE,
                resp |-> RemoteResponse(status, body)]
    /\ UNCHANGED <<online, now, outbox, nextOutboxId, syncConflicts, nextConflictId,
                   syncVars, submitted, monitorVars, initVars, watchVars>>

\* Mutant: the response to an online mutation is written to the cache.
InterceptPassThroughCaching(req, status, body) ==
    /\ online
    /\ isMutationMethod(req.method)
    /\ cache' = cacheGet(cache, req.url, body)
    /\ last' = [op |-> "passThrough", req |-> req, remote |-> TRUE,
                resp |-> RemoteResponse(status, body)]
    /\ UNCHANGED <<online, now, outbox, nextOutboxId, syncConflicts, nextConflictId,
                   syncVars, submitted, reads, monitorVars, initVars, watchVars>>

\* intercept, the last return: next.handle(req), an online mutation.
InterceptPassThrough(req, status, body) ==
    /\ online
    /\ isMutationMethod(req.method)
    /\ last' = [op |-> "passThrough", req |-> req, remote |-> TRUE,
                resp |-> RemoteResponse(status, body)]
    /\ UNCHANGED <<online, now, storeVars, syncVars, submitted, reads, monitorVars, initVars, watchVars>>

\* ------------------------------------------------------------ SyncService
\* Mutant: connectivity is not looked at.
shouldSkipSyncWhenSyncing(isOnline) == currentStatus.isSyncing

shouldSkipSync(isOnline) == currentStatus.isSyncing \/ ~isOnline

\* startSync
startSync(totalItems) ==
    [isSyncing |-> TRUE, totalItems |-> totalItems, completedItems |-> 0, failedItems |-> 0]

\* incrementCompletedItems
incrementCompletedItems(status) ==
    [status EXCEPT !.completedItems = status.completedItems + 1]

\* handleClientError: the status it publishes once the item is moved.
ClientErrorStatus(status) ==
    [status EXCEPT !.completedItems = status.completedItems + 1,
                   !.failedItems = status.failedItems + 1]

\* Mutant: the status stays syncing.
handleServerErrorStillSyncing(status) == status

\* handleServerError
handleServerError(status) ==
    [isSyncing |-> FALSE, totalItems |-> status.totalItems,
     completedItems |-> status.completedItems, failedItems |-> status.failedItems]

\* hasValidItemId
hasValidItemId(item) == item.id # 0

\* createHttpRequest: http.delete is given no body.
createHttpRequest(item) ==
    Request(item.url, item.method, IF item.method = "DELETE" THEN JsonNull ELSE item.payload)

\* handleClientError: the record handed to addToSyncConflicts.
ConflictOf(item, status) ==
    [url |-> item.url, method |-> item.method, payload |-> item.payload,
     timestamp |-> item.timestamp, error |-> ErrorMessage(status),
     item |-> item.id, m |-> item.m]

\* sync(), from shouldSkipSync to the await of getOutbox: the invocation d
\* has read currentStatus and issued the read of the outbox.
SyncStart(d, isOnline) ==
    /\ ~shouldSkipSync(isOnline)
    /\ d = syncCount + 1
    /\ d \in Syncs
    /\ syncCount' = d
    /\ pc' = [pc EXCEPT ![d] = "reading"]
    /\ snapshot' = [snapshot EXCEPT ![d] = getOutbox(outbox)]
    /\ UNCHANGED <<now, storeVars, currentStatus, idx, via, answer, replayLog, acked,
                   rejected, submitted, reads, last, initVars>>

\* triggerSync(): fire and forget.
TriggerSync ==
    /\ IF shouldSkipSync(online)
       THEN UNCHANGED <<syncCount, pc, snapshot, now, storeVars, currentStatus, idx, via,
                        answer, replayLog, acked, rejected, submitted, reads, last,
                        initVars>>
       ELSE SyncStart(syncCount + 1, online)
    /\ UNCHANGED <<online, monitorVars, watchVars>>

\* triggerSync() with the request and the invocation of sync() it starts
\* (0 if it starts none) put on record.
TriggerSyncObserved ==
    /\ IF shouldSkipSync(online)
       THEN /\ request' = [by |-> "triggerSync", d |-> 0]
            /\ UNCHANGED <<syncCount, pc, snapshot, now, storeVars, currentStatus, idx, via,
                           answer, replayLog, acked, rejected, submitted, reads, last,
                           initVars>>
       ELSE /\ request' = [by |-> "triggerSync", d |-> syncCount + 1]
            /\ SyncStart(syncCount + 1, online)
    /\ UNCHANGED <<online, monitorVars>>

\* The platform regains connectivity: navigator.onLine becomes true and the
\* window's 'online' event runs the listener of setupOnlineListener.
GoOnline ==
    /\ ~online
    /\ online' = TRUE
    /\ stream' = Emit(stream, TRUE)
    /\ UNCHANGED <<constructedOnline, watchVars>>
    /\ IF shouldSkipSync(TRUE)
       THEN UNCHANGED <<syncCount, pc, snapshot, now, storeVars, currentStatus, idx, via,
                        answer, replayLog, acked, rejected, submitted, reads, last,
                        initVars>>
       ELSE SyncStart(syncCount + 1, TRUE)

\* The same with the request put on record.
GoOnlineObserved ==
    /\ ~online
    /\ online' = TRUE
    /\ stream' = Emit(stream, TRUE)
    /\ UNCHANGED constructedOnline
    /\ IF shouldSkipSync(TRUE)
       THEN /\ request' = [by |-> "online", d |-> 0]
            /\ UNCHANGED <<syncCount, pc, snapshot, now, storeVars, currentStatus, idx, via,
                           answer, replayLog, acked, rejected, submitted, reads, last,
                           initVars>>
       ELSE /\ request' = [by |-> "online", d |-> syncCount + 1]
            /\ SyncStart(syncCount + 1, TRUE)

\* processOutboxItems, concatMap taking up item i of invocation d (or the
\* end of outboxItems), with the outbox as the step has left it so far.
\* processItem builds the request, and subscribing to it runs it through
\* the interceptor chain at once: offline it is queued again by
\* handleOfflineMutation, online it goes to the remote.
Continue(d, i, store) ==
    IF i > Len(snapshot[d])
    THEN \* complete: handleSyncComplete awaits getOutbox
         /\ pc' = [pc EXCEPT ![d] = "completing"]
         /\ idx' = [idx EXCEPT ![d] = 0]
         /\ via' = [via EXCEPT ![d] = "none"]
         /\ outbox' = store
         /\ UNCHANGED <<nextOutboxId, replayLog>>
    ELSE LET item == snapshot[d][i]
             req == createHttpRequest(item)
         IN  /\ hasValidItemId(item)
             /\ pc' = [pc EXCEPT ![d] = "inflight"]
             /\ idx' = [idx EXCEPT ![d] = i]
             /\ IF ~online /\ isMutationMethod(req.method)
                THEN /\ via' = [via EXCEPT ![d] = "local"]
                     /\ outbox' = addToOutbox(store, OfflineOutboxItem(req, item.m),
                                              nextOutboxId)
                     /\ nextOutboxId' = nextOutboxId + 1
                     /\ UNCHANGED replayLog
                ELSE /\ via' = [via EXCEPT ![d] = "remote"]
                     /\ outbox' = store
                     /\ replayLog' = Append(replayLog,
                                            [d |-> d, id |-> item.id, m |-> item.m, req |-> req])
                     /\ UNCHANGED nextOutboxId

\* sync(), after the await of getOutbox.
SyncGotOutbox(d) ==
    /\ pc[d] = "reading"
    /\ IF Len(snapshot[d]) = 0
       THEN /\ pc' = [pc EXCEPT ![d] = "done"]
            /\ UNCHANGED <<outbox, nextOutboxId, currentStatus, idx, via, replayLog>>
       ELSE /\ currentStatus' = startSync(Len(snapshot[d]))
            /\ Continue(d, 1, outbox)
    /\ UNCHANGED <<online, now, syncConflicts, nextConflictId, cache, syncCount, snapshot,
                   answer, acked, rejected, submitted, reads, last, monitorVars, initVars, watchVars>>

\* The remote answers the replay that invocation d has in flight.
RemoteAnswers(d, status) ==
    /\ pc[d] = "inflight"
    /\ via[d] = "remote"
    /\ answer[d] = NoAnswer
    /\ answer' = [answer EXCEPT ![d] = status]
    /\ acked' = IF isSuccessStatus(status) THEN acked \cup {snapshot[d][idx[d]].m} ELSE acked
    /\ UNCHANGED <<online, now, storeVars, currentStatus, syncCount, pc, snapshot, idx, via,
                   replayLog, rejected, submitted, reads, last, monitorVars, initVars, watchVars>>

\* processItem's tap and the tap of processOutboxItems, on a response:
\* handleSuccessfulRequest issues the removal and is not awaited,
\* incrementCompletedItems publishes, concatMap goes on.
Succeeded(d) ==
    LET item == snapshot[d][idx[d]]
    IN  /\ currentStatus' = incrementCompletedItems(currentStatus)
        /\ Continue(d, idx[d] + 1,
                    IF item.id # 0 THEN removeFromOutbox(outbox, item.id) ELSE outbox)

\* The optimistic response of handleOfflineMutation reaches the drain.
ReplayAnsweredLocally(d) ==
    /\ pc[d] = "inflight"
    /\ via[d] = "local"
    /\ Succeeded(d)
    /\ UNCHANGED <<online, now, syncConflicts, nextConflictId, cache, syncCount, snapshot,
                   answer, acked, rejected, submitted, reads, last, monitorVars, initVars, watchVars>>

\* Mutant: the drain goes on without waiting for the answer.
ReplaySucceededUnanswered(d) ==
    /\ pc[d] = "inflight"
    /\ via[d] = "remote"
    /\ Succeeded(d)
    /\ answer' = [answer EXCEPT ![d] = NoAnswer]
    /\ UNCHANGED <<online, now, syncConflicts, nextConflictId, cache, syncCount, snapshot,
                   acked, rejected, submitted, reads, last, monitorVars, initVars, watchVars>>

\* The 2xx answer of the remote reaches the drain.
ReplaySucceeded(d) ==
    /\ pc[d] = "inflight"
    /\ answer[d] # NoAnswer
    /\ isSuccessStatus(answer[d])
    /\ Succeeded(d)
    /\ answer' = [answer EXCEPT ![d] = NoAnswer]
    /\ UNCHANGED <<online, now, syncConflicts, nextConflictId, cache, syncCount, snapshot,
                   acked, rejected, submitted, reads, last, monitorVars, initVars, watchVars>>

\* handleSyncError on a client error: handleClientError issues
\* addToSyncConflicts and awaits it.
ReplayRejected(d) ==
    /\ pc[d] = "inflight"
    /\ answer[d] # NoAnswer
    /\ ~isSuccessStatus(answer[d])
    /\ isClientError(answer[d])
    /\ syncConflicts' = addToSyncConflicts(syncConflicts,
                                           ConflictOf(snapshot[d][idx[d]], answer[d]),
                                           nextConflictId)
    /\ nextConflictId' = nextConflictId + 1
    /\ rejected' = rejected \cup {snapshot[d][idx[d]]}
    /\ pc' = [pc EXCEPT ![d] = "conflictAdd"]
    /\ via' = [via EXCEPT ![d] = "none"]
    /\ answer' = [answer EXCEPT ![d] = NoAnswer]
    /\ UNCHANGED <<online, now, outbox, nextOutboxId, cache, currentStatus, syncCount,
                   snapshot, idx, replayLog, acked, submitted, reads, last, monitorVars, initVars, watchVars>>

\* handleClientError after the await of addToSyncConflicts: it issues
\* removeFromOutbox and awaits it.
ConflictAdded(d) ==
    /\ pc[d] = "conflictAdd"
    /\ outbox' = IF snapshot[d][idx[d]].id # 0
                 THEN removeFromOutbox(outbox, snapshot[d][idx[d]].id)
                 ELSE outbox
    /\ pc' = [pc EXCEPT ![d] = "conflictRemove"]
    /\ UNCHANGED <<online, now, nextOutboxId, syncConflicts, nextConflictId, cache,
                   currentStatus, syncCount, snapshot, idx, via, answer, replayLog, acked,
                   rejected, submitted, reads, last, monitorVars, initVars, watchVars>>

\* handleClientError after the await of removeFromOutbox: it publishes the
\* status, handleSyncError returns EMPTY and concatMap goes on.
ConflictRemoved(d) ==
    /\ pc[d] = "conflictRemove"
    /\ currentStatus' = ClientErrorStatus(currentStatus)
    /\ Continue(d, idx[d] + 1, outbox)
    /\ UNCHANGED <<online, now, syncConflicts, nextConflictId, cache, syncCount, snapshot,
                   answer, acked, rejected, submitted, reads, last, monitorVars, initVars, watchVars>>

\* Mutant: the failed replay is sent again.
ReplayFailedRetrying(d) ==
    /\ pc[d] = "inflight"
    /\ answer[d] # NoAnswer
    /\ ~isSuccessStatus(answer[d])
    /\ ~isClientError(answer[d])
    /\ answer' = [answer EXCEPT ![d] = NoAnswer]
    /\ replayLog' = Append(replayLog, [d |-> d, id |-> snapshot[d][idx[d]].id,
                                       m |-> snapshot[d][idx[d]].m,
                                       req |-> createHttpRequest(snapshot[d][idx[d]])])
    /\ UNCHANGED <<online, now, storeVars, currentStatus, syncCount, pc, snapshot, idx, via,
                   acked, rejected, submitted, reads, last, monitorVars, initVars, watchVars>>

\* handleSyncError on any other failure: handleServerError publishes, the
\* error is thrown again and ends the subscription of processOutboxItems.
ReplayFailed(d) ==
    /\ pc[d] = "inflight"
    /\ answer[d] # NoAnswer
    /\ ~isSuccessStatus(answer[d])
    /\ ~isClientError(answer[d])
    /\ currentStatus' = handleServerError(currentStatus)
    /\ pc' = [pc EXCEPT ![d] = "done"]
    /\ snapshot' = [snapshot EXCEPT ![d] = <<>>]
    /\ idx' = [idx EXCEPT ![d] = 0]
    /\ via' = [via EXCEPT ![d] = "none"]
    /\ answer' = [answer EXCEPT ![d] = NoAnswer]
    /\ UNCHANGED <<online, now, storeVars, syncCount, replayLog, acked, rejected,
                   submitted, reads, last, monitorVars, initVars, watchVars>>

\* handleSyncComplete after the await of getOutbox.
SyncComplete(d) ==
    /\ pc[d] = "completing"
    /\ currentStatus' = IdleStatus
    /\ pc' = [pc EXCEPT ![d] = "done"]
    /\ snapshot' = [snapshot EXCEPT ![d] = <<>>]
    /\ UNCHANGED <<online, now, storeVars, syncCount, idx, via, answer, replayLog, acked,
                   rejected, submitted, reads, last, monitorVars, initVars, watchVars>>

\* ------------------------------------------------ Local Store failures
\* An IndexedDB request can fail (quota exceeded, aborted transaction): the
\* promise of the store operation is rejected.  The actions below are the
\* steps above with that outcome.

\* What the caller of a request gets when its observable ends in an error.
RequestFailed == [failed |-> TRUE]

\* handleOfflineMutation when addToOutbox is rejected: the await throws, the
\* promise handed to from() is rejected and the request fails.
InterceptOfflineMutationStoreFails(req) ==
    /\ ~online
    /\ isMutationMethod(req.method)
    /\ last' = [op |-> "offlineMutation", req |-> req, remote |-> FALSE,
                resp |-> RequestFailed]
    /\ UNCHANGED <<online, now, storeVars, syncVars, submitted, reads, monitorVars,
                   initVars, watchVars>>

\* handleOnlineGet when cacheGet is rejected: the catch logs it, the event
\* goes to the caller.  answered is ghost: what the remote answered.
InterceptOnlineGetCacheFails(req, status, body) ==
    /\ online
    /\ isGetMethod(req.method)
    /\ CachesResponse(status)
    /\ last' = [op |-> "onlineGet", req |-> req, remote |-> TRUE,
                resp |-> RemoteResponse(status, body),
                answered |-> [status |-> status, body |-> body]]
    /\ UNCHANGED <<online, now, storeVars, syncVars, submitted, reads, monitorVars,
                   initVars, watchVars>>

\* A sync() invocation ends without publishing anything.
EndsSilently(d) ==
    /\ pc' = [pc EXCEPT ![d] = "done"]
    /\ snapshot' = [snapshot EXCEPT ![d] = <<>>]
    /\ idx' = [idx EXCEPT ![d] = 0]
    /\ via' = [via EXCEPT ![d] = "none"]
    /\ answer' = [answer EXCEPT ![d] = NoAnswer]
    /\ UNCHANGED <<online, now, storeVars, currentStatus, syncCount, replayLog, acked,
                   rejected, submitted, reads, last, monitorVars, initVars, watchVars>>

\* sync() when getOutbox is rejected: sync() is rejected, and triggerSync
\* and the online listener drop its promise.
SyncGotOutboxReadFails(d) ==
    /\ pc[d] = "reading"
    /\ EndsSilently(d)

\* A response reaches the drain and the removeFromOutbox of
\* handleSuccessfulRequest is rejected: handleSuccessfulRequest is called
\* in a tap and its promise is dropped, incrementCompletedItems publishes
\* and concatMap goes on.
ReplaySucceededRemoveFails(d) ==
    /\ pc[d] = "inflight"
    /\ via[d] = "local" \/ (answer[d] # NoAnswer /\ isSuccessStatus(answer[d]))
    /\ currentStatus' = incrementCompletedItems(currentStatus)
    /\ Continue(d, idx[d] + 1, outbox)
    /\ answer' = [answer EXCEPT ![d] = NoAnswer]
    /\ UNCHANGED <<online, now, syncConflicts, nextConflictId, cache, syncCount, snapshot,
                   acked, rejected, submitted, reads, last, monitorVars, initVars, watchVars>>

\* handleClientError when addToSyncConflicts is rejected: the rejection
\* passes handleSyncError and catchError and reaches the error handler of
\* processOutboxItems, which logs it.
ReplayRejectedAddFails(d) ==
    /\ pc[d] = "inflight"
    /\ answer[d] # NoAnswer
    /\ ~isSuccessStatus(answer[d])
    /\ isClientError(answer[d])
    /\ EndsSilently(d)

\* handleClientError when removeFromOutbox is rejected: the same way.
ConflictAddedRemoveFails(d) ==
    /\ pc[d] = "conflictAdd"
    /\ EndsSilently(d)

\* handleSyncComplete when getOutbox is rejected: handleSyncComplete is
\* rejected before it publishes, and its promise is dropped.
SyncCompleteReadFails(d) ==
    /\ pc[d] = "completing"
    /\ EndsSilently(d)

DrainStoreFails(d) ==
    \/ SyncGotOutboxReadFails(d)
    \/ ReplaySucceededRemoveFails(d)
    \/ ReplayRejectedAddFails(d)
    \/ ConflictAddedRemoveFails(d)
    \/ SyncCompleteReadFails(d)

\* ------------------------------------------------------- specifications
\* The mutations callers submit while the engine runs.
SubmitRequests ==
    {Request("/notes/1", "PUT", "{note:x}"),
     Request("/notes/1", "PUT", "0"),
     Request("/notes/1", "DELETE", "null")}

SubmitOffline == \E req \in SubmitRequests : InterceptOfflineMutation(req)

Drain(d) ==
    \/ SyncGotOutbox(d)
    \/ \E status \in ReplayStatuses : RemoteAnswers(d, status)
    \/ ReplayAnsweredLocally(d)
    \/ ReplaySucceeded(d)
    \/ ReplayRejected(d)
    \/ ReplayFailed(d)
    \/ ConflictAdded(d)
    \/ ConflictRemoved(d)
    \/ SyncComplete(d)

Next ==
    \/ Tick
    \/ GoOffline
    \/ GoOnline
    \/ TriggerSync
    \/ SubmitOffline
    \/ \E d \in Syncs : Drain(d)

Spec == Init /\ [][Next]_vars

\* The router on its own: callers read and submit while connectivity is
\* there and after it is lost; it does not come back, so no drain runs.
SubmitResponseBodies == {"{note:x}"}

Read(url) == Request(url, "GET", JsonNull)

NextRouter ==
    \/ Tick
    \/ GoOffline
    \/ \E req \in SubmitRequests : InterceptOfflineMutation(req)
    \/ \E url \in Urls : InterceptOfflineGet(Read(url))
    \/ \E url \in Urls, status \in RemoteStatuses, body \in Bodies :
           InterceptOnlineGet(Read(url), status, body)
    \/ \E req \in SubmitRequests, status \in RemoteStatuses, body \in SubmitResponseBodies :
           InterceptPassThrough(req, status, body)

SpecRouter == Init /\ [][NextRouter]_vars

\* Reads, online mutations and drains side by side: callers read and
\* mutate one resource while connectivity comes and goes, and the remote
\* accepts every replay.
AppRequest == Request("/notes/1", "PUT", "{note:x}")
AppReadStatuses == {HTTP_STATUS_OK, HTTP_STATUS_NOT_FOUND}
AppBodies == {"[]", "{note:x}"}

NextApp ==
    \/ GoOffline
    \/ GoOnline
    \/ TriggerSync
    \/ InterceptOfflineMutation(AppRequest)
    \/ \E status \in AppReadStatuses, body \in AppBodies :
           InterceptOnlineGet(Read("/notes/1"), status, body)
    \/ \E body \in AppBodies : InterceptPassThrough(AppRequest, HTTP_STATUS_OK, body)
    \/ \E d \in Syncs : SyncGotOutbox(d)
    \/ \E d \in Syncs : RemoteAnswers(d, HTTP_STATUS_OK)
    \/ \E d \in Syncs : ReplayAnsweredLocally(d)
    \/ \E d \in Syncs : ReplaySucceeded(d)
    \/ \E d \in Syncs : SyncComplete(d)

SpecApp == Init /\ [][NextApp]_vars

\* The engine and the router with a Local Store whose operations may fail.
NextStorage ==
    \/ GoOffline
    \/ GoOnline
    \/ InterceptOfflineMutation(AppRequest)
    \/ InterceptOfflineMutationStoreFails(AppRequest)
    \/ InterceptOnlineGetCacheFails(Read("/notes/1"), HTTP_STATUS_OK, "[]")
    \/ \E d \in Syncs : Drain(d)
    \/ \E d \in Syncs : DrainStoreFails(d)

SpecStorage == Init /\ [][NextStorage]_vars

\* The same, with every step of a sync() invocation taken eventually: the
\* remote answers every call and every store operation settles.
SpecStorageFair ==
    /\ SpecStorage
    /\ \A d \in Syncs : WF_vars(Drain(d) \/ DrainStoreFails(d))

\* The operator works on the conflict log while the engine runs.
RemoveSyncConflict(id) ==
    /\ syncConflicts' = removeSyncConflict(syncConflicts, id)
    /\ UNCHANGED <<online, now, outbox, nextOutboxId, nextConflictId, cache, syncVars,
                   submitted, reads, last, monitorVars, initVars, watchVars>>

NextOperator ==
    \/ GoOffline
    \/ GoOnline
    \/ TriggerSync
    \/ InterceptOfflineMutation(AppRequest)
    \/ \E d \in Syncs : Drain(d)
    \/ \E c \in syncConflicts : RemoveSyncConflict(c.id)

SpecOperator == Init /\ [][NextOperator]_vars

\* Requests for a drain under watch: one resource is mutated offline,
\* connectivity comes and goes, drains are requested at any moment and the
\* remote answers as it likes.
NextTrigger ==
    \/ GoOffline
    \/ GoOnlineObserved
    \/ TriggerSyncObserved
    \/ InterceptOfflineMutation(AppRequest)
    \/ \E d \in Syncs : Drain(d)

SpecTrigger == Init /\ [][NextTrigger]_vars

\* The store being opened: the application starts on a database that does
\* not exist yet (version 0), on one an earlier build left at version 2
\* without sessionNotes, or on one at dbVersion with whatever object stores
\* it was left with (no upgrade runs on it); init() is called by several
\* callers, and store operations follow.
InitialDisks ==
    {[version |-> 0, stores |-> {}],
     [version |-> 2, stores |-> {"outbox", "syncConflicts", "cache"}]}
        \cup {[version |-> dbVersion, stores |-> S] : S \in SUBSET ObjectStores}

InitClosed ==
    /\ InitServices
    /\ disk \in InitialDisks
    /\ db = NoHandle
    /\ connections = 0
    /\ upgrades = 0
    /\ sessionNotes = {}
    /\ seedInserts = [i \in 1..Len(SampleNotes) |-> 0]

NextInit ==
    \/ \E c \in Callers : InitCall(c)
    \/ \E c \in Callers : OpenResolved(c)
    \/ \E c \in Callers : CountResolved(c)
    \/ \E c \in Callers : AddResolved(c)
    \/ \E c \in Callers, o \in StoreReads : StoreRead(c, o)
    \/ \E c \in Callers :
           StoreAppend(c, [url |-> "/notes/1", method |-> "PUT", payload |-> "{note:x}",
                           timestamp |-> now, m |-> 0])

SpecInit == InitClosed /\ [][NextInit]_vars

\* The connectivity monitor: subscribers come and go on with the platform's
\* events; the outbox is empty, so the sync() an online event starts ends
\* after its read of the outbox.
NextMonitor ==
    \/ GoOffline
    \/ GoOnline
    \/ \E s \in Subscribers : Subscribe(s)
    \/ \E d \in Syncs : SyncGotOutbox(d)

SpecMonitor == Init /\ [][NextMonitor]_vars

\* ================================================================ claims
\* Invocation d of sync() is a drain: it has published its start status and
\* has not returned to Idle.
Draining(d) == pc[d] \in {"inflight", "conflictAdd", "conflictRemove", "completing"}

\* The outbox keys of the replay calls of invocation d that reached the
\* remote, in the order they were issued.
RECURSIVE CallsIn(_, _)
CallsIn(log, d) ==
    IF log = <<>> THEN <<>>
    ELSE (IF Head(log).d = d THEN <<Head(log).id>> ELSE <<>>) \o CallsIn(Tail(log), d)

CallsOf(d) == CallsIn(replayLog, d)

KeysOf(items) == [i \in 1..Len(items) |-> items[i].id]

\* C1: at most one drain is active at any time: no two invocations of
\* sync() are draining at once, so no outbox item is being replayed by two
\* drains at the same time.
C1_SingleActiveDrain ==
    \A d1, d2 \in Syncs : Draining(d1) /\ Draining(d2) => d1 = d2

\* C2: a drain replays in enqueue order.  The store assigns the keys in the
\* order of the appends, so: the snapshot of every invocation is in the
\* order of the keys (also among equal timestamps), the remote calls it has
\* issued so far are items of the snapshot in the order of the snapshot,
\* and once it has reached the end with a remote call for every item, the
\* calls are the whole snapshot in that order.
C2_ReplayInEnqueueOrder ==
    \A d \in Syncs :
        /\ \A i, j \in 1..Len(snapshot[d]) : i < j => snapshot[d][i].id < snapshot[d][j].id
        /\ \A i, j \in 1..Len(CallsOf(d)) : i < j => CallsOf(d)[i] < CallsOf(d)[j]
        /\ pc[d] # "done" =>
               \A i \in 1..Len(CallsOf(d)) :
                   \E k \in 1..Len(snapshot[d]) : snapshot[d][k].id = CallsOf(d)[i]
        /\ pc[d] = "completing" /\ Len(CallsOf(d)) = Len(snapshot[d]) =>
               CallsOf(d) = KeysOf(snapshot[d])

\* C2 witness: a drain has reached the end of a snapshot of two mutations
\* with the same timestamp, having sent both to the remote.
C2_Witness ==
    \E d \in Syncs :
        /\ pc[d] = "completing"
        /\ Len(snapshot[d]) = 2
        /\ snapshot[d][1].timestamp = snapshot[d][2].timestamp
        /\ CallsOf(d) = KeysOf(snapshot[d])
        /\ {snapshot[d][1].m, snapshot[d][2].m} \subseteq acked

\* C3: if mutation A was submitted offline before mutation B on the same
\* resource, the remote never receives B before it has received A: when a
\* replay of B has reached the remote and A is still queued, a replay of A
\* has reached the remote before.
C3_SameResourceOrder ==
    \A i \in 1..Len(replayLog) :
        \A a \in outbox :
            a.m < replayLog[i].m /\ a.url = replayLog[i].req.url =>
                \E j \in 1..i : replayLog[j].m = a.m

\* C4: relocation is atomic: no state shows the same mutation both in the
\* pending-mutation queue and in the conflict log.
C4_AtomicRelocation ==
    \A c \in syncConflicts : \A o \in outbox : o.id # c.item

\* C5: no queued mutation is ever lost: every mutation accepted offline is
\* in the queue, or in the conflict log, or has been answered with a 2xx by
\* the remote.
C5_NoMutationLost ==
    \A m \in 1..submitted :
        \/ \E o \in outbox : o.m = m
        \/ \E c \in syncConflicts : c.m = m
        \/ m \in acked

\* C5 witness: two accepted mutations, neither in the queue any more: one
\* answered 2xx, the other in the conflict log.
C5_Witness ==
    /\ submitted = 2
    /\ outbox = {}
    /\ \E m \in 1..2 : m \in acked /\ ~ \E c \in syncConflicts : c.m = m
    /\ \E m \in 1..2 : m \notin acked /\ \E c \in syncConflicts : c.m = m

\* The invocations of sync() that sent outbox item id to the remote.
ReplayedBy(id) == {d \in Syncs : \E i \in 1..Len(replayLog) :
                                     replayLog[i].d = d /\ replayLog[i].id = id}

\* C6: once the drains that replayed it have finished, a queued mutation
\* whose replay was answered 4xx is in the conflict log exactly once, with
\* the url, method, payload and enqueuedAt of the queued item and an error
\* description, and is absent from the queue.
C6_RejectedOnceInConflictLog ==
    \A r \in rejected :
        (\A d \in ReplayedBy(r.id) : pc[d] = "done") =>
            /\ Cardinality({c \in syncConflicts : c.item = r.id}) = 1
            /\ \A c \in syncConflicts :
                   c.item = r.id =>
                       /\ c.url = r.url
                       /\ c.method = r.method
                       /\ c.payload = r.payload
                       /\ c.timestamp = r.timestamp
                       /\ c.error = ErrorMessage(HTTP_STATUS_NOT_FOUND)
            /\ \A o \in outbox : o.id # r.id

\* The remote has answered the replay of invocation d with a transport
\* failure or a status that is neither 2xx nor 400..499, and this step
\* hands the answer to the drain.
TransientFailureDelivered(d) ==
    /\ pc[d] = "inflight"
    /\ answer[d] # NoAnswer
    /\ ~ (answer[d] >= 200 /\ answer[d] < 300)
    /\ ~ (answer[d] >= 400 /\ answer[d] <= 499)
    /\ answer'[d] = NoAnswer

\* C7: on such a failure at item k the drain stops: the invocation is over
\* with no request in flight and issues no remote call from then on (none
\* for items k+1..n), the failure leaves the queue (items k..n with it) and
\* the conflict log as they were, so item k is neither removed nor written
\* to the conflict log, and neither completedItems nor failedItems is
\* advanced.
C7_DrainHaltsOnTransientFailure ==
    [][\A d \in Syncs :
           /\ TransientFailureDelivered(d) =>
                  /\ pc'[d] = "done"
                  /\ via'[d] = "none"
                  /\ replayLog' = replayLog
                  /\ outbox' = outbox
                  /\ syncConflicts' = syncConflicts
                  /\ currentStatus'.completedItems = currentStatus.completedItems
                  /\ currentStatus'.failedItems = currentStatus.failedItems
           /\ pc[d] = "done" =>
                  /\ pc'[d] = "done"
                  /\ CallsIn(replayLog', d) = CallsIn(replayLog, d)]_vars

\* C7 witness: a drain over two items, still both queued, has been stopped
\* by a failure of the first: no call for the second has been issued.
C7_Witness ==
    \E d \in Syncs :
        /\ pc[d] = "done"
        /\ ~currentStatus.isSyncing
        /\ currentStatus.totalItems = 2
        /\ currentStatus.completedItems = 0
        /\ Len(CallsOf(d)) = 1
        /\ Cardinality(outbox) = 2
        /\ syncConflicts = {}

\* C8: offline, submitting a POST, PUT or DELETE appends exactly one
\* PendingMutation carrying the url, method and body of the request, returns
\* a synthesized 200 whose body has success:true, and never contacts the
\* remote; the cache and the conflict log are unchanged.
C8_OfflineMutationQueued ==
    [][submitted' = submitted + 1 =>
           /\ \E o \in outbox' \ outbox :
                  /\ outbox' = outbox \cup {o}
                  /\ o.url = last'.req.url
                  /\ o.method = last'.req.method
                  /\ o.payload = last'.req.body
           /\ last'.resp.status = 200
           /\ last'.resp.body.success
           /\ ~last'.remote
           /\ replayLog' = replayLog
           /\ cache' = cache
           /\ syncConflicts' = syncConflicts]_vars

\* C9: an online read of K answered 200 with body B, followed at once by
\* going offline and reading K again, returns B unchanged with a success
\* status.
C9_CacheRoundTrip ==
    [][(/\ last.op = "onlineGet"
        /\ last.resp.status = 200
        /\ last'.op = "offlineGet"
        /\ last'.req.url = last.req.url) =>
           /\ last'.resp.status >= 200
           /\ last'.resp.status < 300
           /\ last'.resp.body = last.resp.body]_vars

\* C10: every online read answered with a 2xx status writes or overwrites
\* the CacheEntry keyed by the request URL with the response body: after
\* it the cache holds one entry for the key, with that body, and the
\* entries of the other keys are as they were.
C10_SuccessfulReadIsCached ==
    [][(/\ reads' = reads + 1
        /\ last'.resp.status >= 200
        /\ last'.resp.status < 300) =>
           /\ Cardinality({c \in cache' : c.key = last'.req.url}) = 1
           /\ \A c \in cache' : c.key = last'.req.url => Json(c.data) = last'.resp.body
           /\ {c \in cache' : c.key # last'.req.url} = {c \in cache : c.key # last'.req.url}]_vars

\* C11: offline, a read of a URL that has no CacheEntry is answered with the
\* 503 service-unavailable response carrying an explanatory message, the
\* remote is not contacted, and the queue, the conflict log, the cache and
\* the domain records are left as they were.
C11_UncachedOfflineRead ==
    [][(/\ last' # last
        /\ last'.op = "offlineGet"
        /\ ~ \E c \in cache : c.key = last'.req.url) =>
           /\ last'.resp.status = 503
           /\ last'.resp.statusText = "Service Unavailable"
           /\ last'.resp.body = [error |-> "No cached data available and device is offline"]
           /\ ~last'.remote
           /\ replayLog' = replayLog
           /\ outbox' = outbox
           /\ syncConflicts' = syncConflicts
           /\ cache' = cache
           /\ sessionNotes' = sessionNotes]_vars

\* C11 witness: an offline read of a URL without a CacheEntry has been
\* answered while the cache holds an entry for another URL and a mutation
\* is queued.
C11_Witness ==
    /\ last.op = "offlineGet"
    /\ last.resp.status = 503
    /\ ~ \E c \in cache : c.key = last.req.url
    /\ cache # {}
    /\ outbox # {}

\* C12: the cache is written by successful online reads only, each writing
\* the body it got under the URL it read, so every CacheEntry for K holds
\* the body of an earlier successful online read of K; an online mutation
\* passed through, an offline mutation being queued and a replay of a drain
\* leave the cache as it was, and an online mutation also leaves the queue
\* and the conflict log as they were.
C12_CacheOnlyFromReads ==
    [][/\ cache' # cache =>
              /\ reads' = reads + 1
              /\ last'.op = "onlineGet"
              /\ last'.resp.status >= 200
              /\ last'.resp.status < 300
              /\ \E e \in cache' :
                     /\ e.key = last'.req.url
                     /\ Json(e.data) = last'.resp.body
                     /\ cache' \ {e} = {c \in cache : c.key # e.key}
       /\ (last' # last /\ last'.op = "passThrough") =>
              /\ cache' = cache
              /\ outbox' = outbox
              /\ syncConflicts' = syncConflicts
       /\ submitted' # submitted => cache' = cache
       /\ replayLog' # replayLog => cache' = cache]_vars

\* C12 witness: a resource has been read online and cached, then mutated
\* online with another body in the response, mutated offline and replayed
\* to the remote by a drain: the CacheEntry still holds the body read.
C12_Witness ==
    /\ last.op = "passThrough"
    /\ last.req.url = "/notes/1"
    /\ last.resp.body = Json("{note:x}")
    /\ \E e \in cache : e.key = "/notes/1" /\ e.data = "[]"
    /\ submitted > 0
    /\ replayLog # <<>>

\* C13: however the calls of init() overlap, the database is opened once
\* and upgraded once, so that all callers work on one connection, and each
\* sample note is added at most once.
C13_InitOpensOnce ==
    /\ connections <= 1
    /\ upgrades <= 1
    /\ \A i \in 1..Len(SampleNotes) : seedInserts[i] <= 1

\* A required object store is not in the database after openDB has
\* resolved (and the upgrade, if one was due, has run).
SchemaCorrupt == db # NoHandle /\ disk.stores # ObjectStores

\* C14: if a required collection is absent after the open/upgrade attempt,
\* no call of init() returns normally and no store operation succeeds.
C14_NoDegradedMode ==
    SchemaCorrupt =>
        /\ \A c \in Callers : initPc[c] # "returned"
        /\ lastOp # NoOperation => ~lastOp.ok

\* C15: what isOnline$ has delivered to a subscriber ends with the current
\* value of navigator.onLine (it starts with the current value and follows
\* every transition) and never holds two equal values in a row.
C15_ConnectivityStream ==
    \A s \in Subscribers :
        stream[s] # <<>> =>
            /\ stream[s][Len(stream[s])] = online
            /\ \A i \in 1..(Len(stream[s]) - 1) : stream[s][i] # stream[s][i + 1]

\* A step that is a request for a drain: a watched triggerSync() (one that
\* repeats the last request with the same outcome changes nothing at
\* all), or the online event.
SyncRequested == request' # request \/ (~online /\ online')

\* C16: a request starts a drain exactly when the orchestrator is Idle,
\* connectivity is online and the queue is non-empty.  A request made while
\* Idle and online, and no other step, starts an invocation of sync(),
\* which reads the queue as it is; the invocation becomes a drain, with the
\* start status published and the first replay issued, if what it read is
\* non-empty, and ends without a trace otherwise.  Any other request, one
\* made while offline in particular, issues no remote call, publishes no
\* status and leaves the queue and the conflict log as they were.
C16_DrainStartsWhenRequested ==
    [][/\ syncCount' # syncCount => SyncRequested /\ syncCount' = syncCount + 1
       /\ SyncRequested =>
              IF ~currentStatus.isSyncing /\ online'
              THEN /\ syncCount' = syncCount + 1
                   /\ pc'[syncCount'] = "reading"
                   /\ snapshot'[syncCount'] = getOutbox(outbox)
              ELSE /\ UNCHANGED <<syncCount, pc, snapshot, currentStatus, replayLog>>
                   /\ UNCHANGED <<outbox, syncConflicts>>
       /\ \A d \in Syncs :
              /\ pc'[d] = "reading" => pc[d] = "reading" \/ (pc[d] = "idle" /\ SyncRequested)
              /\ pc[d] = "reading" /\ pc'[d] # "reading" =>
                     IF snapshot[d] # <<>>
                     THEN /\ pc'[d] = "inflight"
                          /\ currentStatus' = startSync(Len(snapshot[d]))
                     ELSE /\ pc'[d] = "done"
                          /\ UNCHANGED <<currentStatus, replayLog, outbox, syncConflicts>>
              /\ Draining(d)' /\ ~Draining(d) => pc[d] = "reading"]_vars

\* C16 witness: with a mutation queued, a drain was requested by
\* triggerSync() while offline and nothing came of it, after an earlier
\* request had started a drain.
C16_Witness ==
    /\ request = [by |-> "triggerSync", d |-> 0]
    /\ ~online
    /\ ~currentStatus.isSyncing
    /\ outbox # {}
    /\ syncCount = 1
    /\ pc[1] = "done"
    /\ replayLog # <<>>

\* The items of its snapshot a drain is done with.
Progress(d) == IF pc[d] = "completing" THEN Len(snapshot[d]) ELSE idx[d] - 1

\* Those of them that were moved to the conflict log.
Moved(d) ==
    Cardinality({i \in 1..Progress(d) :
                    \E c \in syncConflicts : c.item = snapshot[d][i].id})

\* C17: the statuses a drain over n items publishes.  The drain publishes
\* {isSyncing: true, totalItems: n, 0, 0} when it starts and one status when
\* it is done with an item, so that as long as it runs the published status
\* is {true, n, completedItems, failedItems} with completedItems the number
\* of items it is done with and failedItems the number of those that were
\* moved to the conflict log; at its end it publishes the all-zero
\* not-syncing status.
C17_StatusSequence ==
    [][\A d \in Syncs :
          /\ Draining(d)' =>
                 currentStatus' = [isSyncing |-> TRUE,
                                   totalItems |-> Len(snapshot'[d]),
                                   completedItems |-> Progress(d)',
                                   failedItems |-> Moved(d)']
          /\ pc[d] = "completing" /\ pc'[d] = "done" => currentStatus' = IdleStatus]_vars

\* The replay call for item i of the snapshot of invocation d.
CallFor(d, i) ==
    [d |-> d, id |-> snapshot[d][i].id, m |-> snapshot[d][i].m,
     req |-> createHttpRequest(snapshot[d][i])]

\* The relocation of item i of the snapshot of d has finished: it has a
\* record in the conflict log and is not in the outbox.
Relocated(d, i) ==
    /\ \E c \in syncConflicts : c.item = snapshot[d][i].id
    /\ \A o \in outbox : o.id # snapshot[d][i].id

\* Invocation d issues a replay call in the step.
Issues(d) ==
    /\ Len(replayLog') > Len(replayLog)
    /\ replayLog'[Len(replayLog')].d = d

\* C18: a client error does not abort the drain.  When the 4xx answer to
\* the replay of item k reaches the drain, the drain is not ended: it
\* relocates item k, issuing no replay meanwhile, and once the relocation
\* has finished it goes on with item k+1, whose replay is sent to the
\* remote (when connectivity is online), or completes if k was the last
\* item.  The replays of a drain are issued one item after the other.
C18_ClientErrorDoesNotAbort ==
    [][\A d \in Syncs :
          /\ pc[d] = "inflight" /\ answer[d] \in 400..499 /\ answer'[d] = NoAnswer =>
                 /\ pc'[d] = "conflictAdd"
                 /\ idx'[d] = idx[d] /\ snapshot'[d] = snapshot[d]
                 /\ ~Issues(d)
          /\ pc[d] = "conflictAdd" /\ pc'[d] # "conflictAdd" =>
                 /\ pc'[d] = "conflictRemove"
                 /\ idx'[d] = idx[d] /\ snapshot'[d] = snapshot[d]
                 /\ ~Issues(d)
          /\ pc[d] = "conflictRemove" /\ pc'[d] # "conflictRemove" =>
                 /\ Relocated(d, idx[d])
                 /\ snapshot'[d] = snapshot[d]
                 /\ IF idx[d] < Len(snapshot[d])
                    THEN /\ pc'[d] = "inflight"
                         /\ idx'[d] = idx[d] + 1
                         /\ online => replayLog' = Append(replayLog, CallFor(d, idx[d] + 1))
                    ELSE /\ pc'[d] = "completing"
                         /\ replayLog' = replayLog
          /\ Issues(d) =>
                 /\ pc[d] \in {"reading", "inflight", "conflictRemove"}
                 /\ idx'[d] = idx[d] + 1
                 /\ replayLog' = Append(replayLog, CallFor(d, idx[d] + 1))]_vars

\* C18 witness: the first item of a snapshot of two was answered 4xx and
\* relocated, and the replay of the second has been sent to the remote.
C18_Witness ==
    \E d \in Syncs :
        /\ Len(snapshot[d]) = 2
        /\ pc[d] = "inflight"
        /\ idx[d] = 2
        /\ Relocated(d, 1)
        /\ snapshot[d][1] \in rejected
        /\ currentStatus.failedItems = 1
        /\ replayLog # <<>>
        /\ replayLog[Len(replayLog)] = CallFor(d, 2)

\* Invocation d of sync() is under way: it has read the queue, or is
\* replaying what it has read.
Running(d) == pc[d] = "reading" \/ Draining(d)

\* The step is one of invocation d.
ActsIn(d) == pc'[d] # pc[d] \/ idx'[d] # idx[d]

\* The outbox keys of its snapshot.
SnapshotKeys(d) == {snapshot[d][i].id : i \in 1..Len(snapshot[d])}

\* C19: a drain works on the snapshot of the queue taken when it starts.
\* The snapshot does not change while the drain is under way; whatever a
\* step removes from the queue is removed by a drain and is the item of
\* that drain's snapshot it is at; the replay a drain issues is of an item
\* of its snapshot; and a step of a drain, its return to Idle included,
\* leaves every queued item that is not in its snapshot (so every item
\* appended since it started) in the queue.
C19_DrainWorksOnSnapshot ==
    [][/\ \A o \in outbox \ outbox' :
              \E d \in Syncs : ActsIn(d) /\ Draining(d) /\ o.id = snapshot[d][idx[d]].id
       /\ \A d \in Syncs :
              /\ Running(d) /\ Running(d)' => snapshot'[d] = snapshot[d]
              /\ Issues(d) => replayLog'[Len(replayLog')].id \in SnapshotKeys(d)
              /\ ActsIn(d) =>
                     \A o \in outbox : o.id \notin SnapshotKeys(d) => o \in outbox']_vars

\* C19 witness: a drain has gone through its whole snapshot, replaying it
\* at the remote, and is about to return to Idle, and another mutation,
\* appended while it was under way, is in the queue.
C19_Witness ==
    \E d \in Syncs :
        /\ pc[d] = "completing"
        /\ Len(CallsOf(d)) = Len(snapshot[d])
        /\ \E o \in outbox :
               /\ o.id \notin SnapshotKeys(d)
               /\ \A i \in 1..Len(snapshot[d]) : snapshot[d][i].m # o.m

\* The keys of the items in the outbox.
OutboxKeys(store) == {o.id : o \in store}

TransientFailureStep(d) ==
    /\ pc[d] = "inflight"
    /\ answer[d] # NoAnswer
    /\ answer[d] \notin 200..499
    /\ answer'[d] = NoAnswer

\* C21: after a transient failure at item k the orchestrator is Idle and
\* the queue is what the next drain will replay.  The step that delivers
\* the failure publishes a not-syncing status and ends the drain; it leaves
\* the queue as it is, and the queue, read as sync() reads it, holds none
\* of the items 1..k-1 of the snapshot, holds the snapshot items that are
\* still queued in their original order, and starts with item k if item k
\* is still queued.  A sync() started later takes exactly that reading of
\* the queue as its snapshot and replays it from its first item.
C21_RestartAfterTransientFailure ==
    [][\A d \in Syncs :
          /\ TransientFailureStep(d) =>
                 LET q == getOutbox(outbox')
                     k == idx[d]
                 IN  /\ ~currentStatus'.isSyncing
                     /\ pc'[d] = "done"
                     /\ outbox' = outbox
                     /\ \A i \in 1..(k - 1) : \A j \in 1..Len(q) : q[j].id # snapshot[d][i].id
                     /\ \A a, b \in 1..Len(q) : \A i, j \in k..Len(snapshot[d]) :
                            a < b /\ q[a] = snapshot[d][i] /\ q[b] = snapshot[d][j] => i < j
                     /\ snapshot[d][k] \in outbox => q # <<>> /\ q[1] = snapshot[d][k]
          /\ pc[d] = "idle" /\ pc'[d] = "reading" =>
                 /\ ~currentStatus.isSyncing /\ online'
                 /\ snapshot'[d] = getOutbox(outbox)
          /\ pc[d] = "reading" /\ pc'[d] = "inflight" =>
                 /\ idx'[d] = 1
                 /\ online => replayLog' = Append(replayLog, CallFor(d, 1))]_vars

\* C21 witness: the first drain replayed item 1 with success and was
\* halted by a transient failure at item 2; the next drain, over the one
\* item still queued, has sent item 2 to the remote again.
C21_Witness ==
    /\ pc[1] = "done"
    /\ pc[2] = "inflight"
    /\ Len(snapshot[2]) = 1
    /\ Len(replayLog) = 3
    /\ replayLog[1].d = 1 /\ replayLog[2].d = 1 /\ replayLog[3].d = 2
    /\ replayLog[1].id # replayLog[2].id
    /\ replayLog[3] = [replayLog[2] EXCEPT !.d = 2]
    /\ replayLog[3] = CallFor(2, 1)
    /\ replayLog[1].m \in acked
    /\ syncConflicts = {}

\* C22: client errors are never retried automatically.  No drain sends to
\* the remote a mutation that was answered 4xx; and a step that takes a
\* record out of the conflict log, or changes one, is a call of
\* removeSyncConflict: it removes the records of one key and touches
\* nothing else.
C22_ClientErrorsNotRetried ==
    [][/\ \A d \in Syncs :
              Issues(d) => \A r \in rejected : r.m # replayLog'[Len(replayLog')].m
       /\ (\E c \in syncConflicts : c \notin syncConflicts') =>
              /\ \E id \in 1..nextConflictId :
                     syncConflicts' = {c \in syncConflicts : c.id # id}
              /\ UNCHANGED <<online, outbox, cache, currentStatus, pc, snapshot, idx,
                             answer, replayLog>>]_vars

\* C23: there is no retry inside a drain.  A drain sends no item of its
\* snapshot to the remote a second time; the step that delivers a network
\* or server failure to it ends it without issuing a call; and once ended
\* it stays ended and issues nothing: a further remote call takes a new
\* sync().
C23_NoRetryInsideDrain ==
    [][\A d \in Syncs :
          /\ Issues(d) =>
                 \A j \in 1..Len(replayLog) :
                     replayLog[j].d = d => replayLog[j].id # replayLog'[Len(replayLog')].id
          /\ TransientFailureStep(d) => pc'[d] = "done" /\ ~Issues(d)
          /\ pc[d] = "done" => pc'[d] = "done" /\ ~Issues(d)]_vars

\* C23 witness: a drain over two items was ended by a server failure at
\* its first item: one call was made, both items are queued, the status
\* is not syncing and no other sync() has started.
C23_Witness ==
    /\ pc = <<"done", "idle">>
    /\ Len(replayLog) = 1
    /\ currentStatus = [isSyncing |-> FALSE, totalItems |-> 2, completedItems |-> 0,
                        failedItems |-> 0]
    /\ Cardinality(outbox) = 2
    /\ \E o \in outbox : o.id = replayLog[1].id

\* The replay calls of invocation d that the remote has not answered yet,
\* or whose answer has not reached the drain.
Outstanding(d) ==
    IF pc[d] = "inflight" /\ via[d] = "remote" THEN {CallFor(d, idx[d])} ELSE {}

\* C24: within one drain at most one replay call is in flight.  A drain
\* that issues a call has none outstanding, or the step is the one in which
\* the answer to its outstanding call reaches it: the call for item i+1 is
\* issued only after the remote has answered item i.
C24_OneReplayInFlight ==
    [][\A d \in Syncs :
          Issues(d) =>
              /\ Outstanding(d) # {} =>
                     /\ answer[d] # NoAnswer
                     /\ idx'[d] = idx[d] + 1
              /\ Outstanding(d)' = {replayLog'[Len(replayLog')]}
              /\ answer'[d] = NoAnswer]_vars

\* C24 witness: the remote has answered item 1 of a drain over two items,
\* and the call for item 2 is in flight, unanswered.
C24_Witness ==
    \E d \in Syncs :
        /\ Len(snapshot[d]) = 2
        /\ Outstanding(d) = {CallFor(d, 2)}
        /\ answer[d] = NoAnswer
        /\ Len(CallsOf(d)) = 2
        /\ snapshot[d][1].m \in acked

\* A response (the optimistic one of the router, or a 2xx of the remote)
\* reaches drain d in the step.
SuccessStep(d) ==
    /\ pc[d] = "inflight"
    /\ ActsIn(d)
    /\ via[d] = "local" \/ answer[d] \in 200..299

\* C25: a Local Store failure is not swallowed.  An offline submission
\* whose append has failed (nothing is appended) fails; a drain does not
\* advance the completed count for an item whose removal from the queue has
\* failed (the item is still queued after the step) or whose conflict
\* record could not be written; an online read whose cache write has failed
\* is answered with the response of the remote.
C25_StoreFailureNotSwallowed ==
    [][/\ last' # last /\ last'.op = "offlineMutation" /\ outbox' = outbox =>
              last'.resp = RequestFailed
       /\ last' # last /\ last'.op = "onlineGet" /\ cache' = cache
             /\ last'.resp.status = HTTP_STATUS_OK =>
              last'.resp = RemoteResponse(last'.answered.status, last'.answered.body)
       /\ \A d \in Syncs :
              /\ SuccessStep(d) /\ snapshot[d][idx[d]].id \in OutboxKeys(outbox') =>
                     currentStatus'.completedItems = currentStatus.completedItems
              /\ pc[d] = "inflight" /\ ActsIn(d) /\ answer[d] \in 400..499
                    /\ syncConflicts' = syncConflicts =>
                     currentStatus'.completedItems = currentStatus.completedItems
              /\ pc[d] = "conflictAdd" /\ ActsIn(d)
                    /\ snapshot[d][idx[d]].id \in OutboxKeys(outbox') =>
                     currentStatus'.completedItems = currentStatus.completedItems]_vars

\* C26: every drain that starts returns to Idle.  Whenever the published
\* status is syncing, a not-syncing status is published eventually, given
\* that the remote answers every call and every store operation settles.
C26_DrainReturnsToIdle == currentStatus.isSyncing ~> ~currentStatus.isSyncing

\* C27: every published status has 0 <= failedItems <= completedItems <=
\* totalItems, and completedItems does not decrease from one published
\* status to the next while isSyncing stays true.
C27_StatusCountsOrdered ==
    [][/\ 0 <= currentStatus'.failedItems
       /\ currentStatus'.failedItems <= currentStatus'.completedItems
       /\ currentStatus'.completedItems <= currentStatus'.totalItems
       /\ currentStatus.isSyncing /\ currentStatus'.isSyncing =>
              currentStatus'.completedItems >= currentStatus.completedItems]_vars

\* C28: each replay reproduces the queued request.  The call a drain sends
\* to the remote for a mutation has the method, the url and the body of the
\* request that was submitted offline.  (Stated for the mutation submitted
\* last, whose request is the one on record.)
C28_ReplayReproducesRequest ==
    [][\A d \in Syncs :
          Issues(d) /\ last.op = "offlineMutation"
                /\ replayLog'[Len(replayLog')].m = submitted =>
              /\ replayLog'[Len(replayLog')].req.method = last.req.method
              /\ replayLog'[Len(replayLog')].req.url = last.req.url
              /\ replayLog'[Len(replayLog')].req.body = last.req.body]_vars

====
